---- MODULE Spec2Model ----
(***************************************************************************)
(* A model of the ring-buffer pipe character device of src/pipe.c: one     *)
(* struct pipe shared by a bounded number of open files (sessions), each   *)
(* of which runs pipe_open, pipe_read, pipe_write and pipe_release.        *)
(*                                                                         *)
(* Granularity.  Every mutex acquisition, every region executed with the   *)
(* mutex held, the unlocked evaluation of a wait_event_interruptible       *)
(* condition and the wake_up_interruptible call after the unlock are       *)
(* separate steps, so that other sessions interleave exactly where the     *)
(* code lets them.  A region executed with the mutex held is one step,     *)
(* except pipe_open, which is split after the allocation.                  *)
(*                                                                         *)
(* Environment.  A file is opened for reading, for writing or for both.    *)
(* kzalloc may fail.  copy_to_user and copy_from_user return the number of *)
(* bytes they could not copy, so only a copy of at least one byte can      *)
(* fail.  A signal ends mutex_lock_interruptible only while the mutex is   *)
(* held by another task, and wait_event_interruptible only while its       *)
(* condition is false.  wake_up_interruptible makes every sleeper of the   *)
(* queue re-evaluate its condition.                                        *)
(***************************************************************************)
EXTENDS Integers, Sequences, FiniteSets

(* ------------------------------ bounds ------------------------------- *)

\* number of open files (struct file) that use the pipe concurrently
NSessions == 2

\* value of the module parameter pipe_size used by the model
PipeSize == 2

\* largest byte count a read or write call is made with (above PipeSize)
MaxReq == 3

Sessions == 1..NSessions

\* the byte counts read and write are called with: nothing, one byte, and
\* MaxReq bytes, which is more than the buffer holds
Reqs == {0, 1, MaxReq}

(* ---------------------------- vocabulary ----------------------------- *)

\* the null pointer: a buffer of no bytes
NULL == << >>
NoOwner == 0

FMODE_READ == "FMODE_READ"
FMODE_WRITE == "FMODE_WRITE"

\* the access modes of an open: read, write, or both
Modes == {{FMODE_READ}, {FMODE_WRITE}, {FMODE_READ, FMODE_WRITE}}

\* the negative errno values the handlers return
ERESTARTSYS == -512
EAGAIN == -11
EFAULT == -14
ENOMEM == -12

\* the two wait queues of struct pipe
p_readq == "p_readq"
p_writeq == "p_writeq"
NoQueue == "none"

\* byte i (1-based) of the user buffer that session s passes to write
UserByte(s, i) == 10 * s + i

\* contents a byte read outside the allocation may have
JunkBytes == {0, 99}

Min(a, b) == IF a < b THEN a ELSE b

(* ------------------------------- state ------------------------------- *)

VARIABLES
    p_rbuf,         \* NULL, or the ring buffer: [0..size-1 -> byte]
    p_readp,        \* next place to read from
    p_writep,       \* next place to write to
    p_count,        \* number of valid bytes
    p_size,         \* number of bytes in p_rbuf
    p_nr_readers,   \* number of readers
    p_nr_writers,   \* number of writers
    p_lock,         \* owner of the mutex, or NoOwner
    pc,             \* where each session is
    call,           \* the file operation each session is in
    f_mode,         \* access mode of each session's file
    f_nonblock,     \* O_NONBLOCK of each session's file
    req,            \* the count argument of the current read or write
    ret,            \* the value the current call returns
    ubuf,           \* bytes delivered to the caller by the current read
    waitq           \* the wait queue each session sleeps on

chan == <<p_rbuf, p_readp, p_writep, p_count, p_size, p_nr_readers, p_nr_writers>>
sess == <<pc, call, f_mode, f_nonblock, req, ret, ubuf, waitq>>
vars == <<chan, p_lock, sess>>

\* pipes = kzalloc(...) and init_waitqueue_head, mutex_init: everything zero
Init ==
    /\ p_rbuf = NULL
    /\ p_readp = 0
    /\ p_writep = 0
    /\ p_count = 0
    /\ p_size = 0
    /\ p_nr_readers = 0
    /\ p_nr_writers = 0
    /\ p_lock = NoOwner
    /\ pc = [s \in Sessions |-> "closed"]
    /\ call = [s \in Sessions |-> "none"]
    /\ f_mode = [s \in Sessions |-> {}]
    /\ f_nonblock = [s \in Sessions |-> FALSE]
    /\ req = [s \in Sessions |-> 0]
    /\ ret = [s \in Sessions |-> 0]
    /\ ubuf = [s \in Sessions |-> <<>>]
    /\ waitq = [s \in Sessions |-> NoQueue]

(* ------------------------- the mutex and signals --------------------- *)

\* mutex_lock_interruptible / mutex_lock succeeding
Acquire(s) ==
    /\ p_lock = NoOwner
    /\ p_lock' = s

\* mutant of NonBlocking: the flag is never honoured
NonBlockingNever(s) == FALSE

\* filp->f_flags & O_NONBLOCK
NonBlocking(s) == f_nonblock[s]

\* a call returns: v is its return value
Returns(s, v) ==
    /\ pc' = [pc EXCEPT ![s] = "returned"]
    /\ ret' = [ret EXCEPT ![s] = v]
    /\ req' = [req EXCEPT ![s] = 0]

(* ------------------------------ pipe_open ---------------------------- *)

OpenCall(s) ==
    /\ pc[s] = "closed"
    /\ pc' = [pc EXCEPT ![s] = "lock"]
    /\ call' = [call EXCEPT ![s] = "open"]
    /\ UNCHANGED <<chan, p_lock, f_mode, f_nonblock, req, ret, ubuf, waitq>>

OpenLock(s) ==
    /\ pc[s] = "lock"
    /\ call[s] = "open"
    /\ Acquire(s)
    /\ pc' = [pc EXCEPT ![s] = "alloc"]
    /\ UNCHANGED <<chan, call, f_mode, f_nonblock, req, ret, ubuf, waitq>>

\* kzalloc(pipe_size, GFP_KERNEL): zeroed bytes
Kzalloc(n) == [i \in 0..(n - 1) |-> 0]

\* mutant of UnlockOnNoMem: the failure path returns without mutex_unlock
KeepLockOnNoMem(s) == s

\* the owner of the mutex after the failure path of the allocation
UnlockOnNoMem(s) == NoOwner

OpenAlloc(s) ==
    /\ pc[s] = "alloc"
    /\ p_lock = s
    /\ IF p_rbuf = NULL
       THEN \E ok \in BOOLEAN :
               IF ok
               THEN /\ p_rbuf' = Kzalloc(PipeSize)
                    /\ pc' = [pc EXCEPT ![s] = "init"]
                    /\ UNCHANGED <<p_lock, ret, req>>
               ELSE /\ p_lock' = UnlockOnNoMem(s)
                    /\ Returns(s, ENOMEM)
                    /\ UNCHANGED p_rbuf
       ELSE /\ pc' = [pc EXCEPT ![s] = "init"]
            /\ UNCHANGED <<p_rbuf, p_lock, ret, req>>
    /\ UNCHANGED <<p_readp, p_writep, p_count, p_size, p_nr_readers, p_nr_writers>>
    /\ UNCHANGED <<call, f_mode, f_nonblock, ubuf, waitq>>

\* mutant of Counted: the session is counted whatever its mode
CountedAlways(bit, m, n) == n + 1

\* a counter of the pipe after an open with mode m: one more when the mode
\* has the bit
Counted(bit, m, n) == IF bit \in m THEN n + 1 ELSE n

\* the rest of pipe_open.  The mode and the flags of the file being opened
\* enter here, where pipe_open first reads filp->f_mode
OpenInit(s) ==
    /\ pc[s] = "init"
    /\ p_lock = s
    /\ \E m \in Modes, nb \in BOOLEAN :
        /\ f_mode' = [f_mode EXCEPT ![s] = m]
        /\ f_nonblock' = [f_nonblock EXCEPT ![s] = nb]
        /\ p_nr_readers' = Counted(FMODE_READ, m, p_nr_readers)
        /\ p_nr_writers' = Counted(FMODE_WRITE, m, p_nr_writers)
    /\ p_size' = PipeSize
    /\ p_readp' = 0
    /\ p_writep' = 0
    /\ p_count' = 0
    /\ p_lock' = NoOwner
    /\ Returns(s, 0)
    /\ UNCHANGED <<p_rbuf, call, ubuf, waitq>>

(* --------------------- the ring buffer and the copies ---------------- *)

\* a > b as C evaluates it when one operand is a size_t of the model's range
\* and the other a signed integer: the signed operand is converted to
\* size_t, which makes a negative value larger than every count
SignedGtSize(a, b) == a < 0 \/ a > b
SizeGtSigned(a, b) == b >= 0 /\ a > b

\* the bytes copy_to_user reads from p_rbuf + off, len of them
BufRead(buf, off, len, junk) ==
    [i \in 1..len |->
        IF buf = NULL THEN junk
        ELSE IF (off + i - 1) \in DOMAIN buf THEN buf[off + i - 1] ELSE junk]

\* p_rbuf after copy_from_user stored data at p_rbuf + off
BufWrite(buf, off, data) ==
    IF buf = NULL THEN buf
    ELSE [j \in DOMAIN buf |->
            IF j >= off /\ j < off + Len(data) THEN data[j - off + 1] ELSE buf[j]]

\* does the copy <<off, len>> stay inside the allocation
InBuffer(buf, seg) ==
    /\ buf # NULL
    /\ seg[1] >= 0
    /\ seg[1] + seg[2] <= Cardinality(DOMAIN buf)

\* the first n bytes of the user buffer session s writes from
UserData(s, n) == [i \in 1..n |-> UserByte(s, i)]

\* may a copy of len bytes report bytes it could not copy
CopyMayFail(len) == len > 0

(* ------------------------------ pipe_read ---------------------------- *)

\* mutant of ReadMustWait: the loop is never entered
ReadMustWaitNever(cnt) == FALSE

\* while (!pipe->p_count)
ReadMustWait(cnt) == cnt = 0

\* wait_event_interruptible(..., pipe->p_count != 0)
ReadWaitCond(cnt) == cnt # 0

\* the queue pipe_read sleeps on, and the queue it wakes
ReadWaitQ == p_readq
ReadWakeQ == p_writeq

\* if (count > pipe->p_count) count = pipe->p_count;
ReadClamp(n, cnt) == IF SizeGtSigned(n, cnt) THEN cnt ELSE n

\* topcount = p_size - p_readp; if (topcount > count) topcount = count;
ReadTop(rp, size, n) == IF SignedGtSize(size - rp, n) THEN n ELSE size - rp

\* the copy_to_user calls of a read of n bytes: <<offset, length>> each
ReadSegs(rp, wp, size, n) ==
    IF rp < wp
    THEN << <<rp, n>> >>
    ELSE LET topcount == ReadTop(rp, size, n)
         IN  IF n - topcount # 0
             THEN << <<rp, topcount>>, <<0, n - topcount>> >>
             ELSE << <<rp, topcount>> >>

\* p_readp after a read of n bytes
ReadNewPos(rp, wp, size, n) ==
    IF rp < wp
    THEN IF rp + n = size THEN 0 ELSE rp + n
    ELSE n - ReadTop(rp, size, n)

\* the bytes the copies segs[1..upto] deliver, then k bytes of the next one
ReadData(buf, segs, upto, k, junk) ==
    LET d1 == IF upto >= 1 THEN BufRead(buf, segs[1][1], segs[1][2], junk)
              ELSE BufRead(buf, segs[1][1], k, junk)
        d2 == IF upto >= 2 THEN BufRead(buf, segs[2][1], segs[2][2], junk)
              ELSE IF upto = 1 /\ Len(segs) = 2 THEN BufRead(buf, segs[2][1], k, junk)
              ELSE <<>>
    IN  d1 \o d2

ReadCall(s) ==
    /\ pc[s] = "idle"
    /\ FMODE_READ \in f_mode[s]
    /\ \E n \in Reqs : req' = [req EXCEPT ![s] = n]
    /\ pc' = [pc EXCEPT ![s] = "lock"]
    /\ call' = [call EXCEPT ![s] = "read"]
    /\ UNCHANGED <<chan, p_lock, f_mode, f_nonblock, ret, ubuf, waitq>>

ReadLock(s) ==
    /\ pc[s] \in {"lock", "relock"}
    /\ call[s] = "read"
    /\ Acquire(s)
    /\ pc' = [pc EXCEPT ![s] = "check"]
    /\ UNCHANGED <<chan, call, f_mode, f_nonblock, req, ret, ubuf, waitq>>

\* the loop test with the mutex held and, when it fails, the transfer
ReadCheck(s) ==
    /\ pc[s] = "check"
    /\ call[s] = "read"
    /\ p_lock = s
    /\ p_lock' = NoOwner
    /\ IF ReadMustWait(p_count)
       THEN /\ IF NonBlocking(s)
               THEN Returns(s, EAGAIN)
               ELSE /\ pc' = [pc EXCEPT ![s] = "wait"]
                    /\ UNCHANGED <<ret, req>>
            /\ UNCHANGED <<chan, ubuf>>
       ELSE LET n == ReadClamp(req[s], p_count)
                segs == ReadSegs(p_readp, p_writep, p_size, n)
            IN  \E f \in 0..Len(segs), k \in 0..MaxReq, junk \in JunkBytes :
                 /\ junk = 0 \/ \E i \in 1..Len(segs) : ~InBuffer(p_rbuf, segs[i])
                 /\ IF f = 0
                    THEN /\ k = 0
                         /\ ubuf' = [ubuf EXCEPT ![s] = ReadData(p_rbuf, segs, Len(segs), 0, junk)]
                         /\ p_readp' = ReadNewPos(p_readp, p_writep, p_size, n)
                         /\ p_count' = p_count - n
                         /\ pc' = [pc EXCEPT ![s] = "wake"]
                         /\ ret' = [ret EXCEPT ![s] = n]
                         /\ UNCHANGED req
                         /\ UNCHANGED <<p_rbuf, p_writep, p_size, p_nr_readers, p_nr_writers>>
                    ELSE /\ CopyMayFail(segs[f][2])
                         /\ k < segs[f][2]
                         /\ ubuf' = [ubuf EXCEPT ![s] = ReadData(p_rbuf, segs, f - 1, k, junk)]
                         /\ Returns(s, EFAULT)
                         /\ UNCHANGED chan
    /\ UNCHANGED <<call, f_mode, f_nonblock, waitq>>

(* ------------------------------ pipe_write --------------------------- *)

\* while (pipe->p_count == pipe->p_size)
WriteMustWait(cnt, size) == cnt = size

\* wait_event_interruptible(..., pipe->p_count != pipe->p_size)
WriteWaitCond(cnt, size) == cnt # size

\* the queue pipe_write sleeps on, and the queue it wakes
WriteWaitQ == p_readq
WriteWakeQ == p_readq

\* mutant of WriteClamp: the request is not clamped at all
WriteClampNone(n, cnt) == n

\* if (count > pipe->p_count) count = pipe->p_count;
WriteClamp(n, cnt) == IF SizeGtSigned(n, cnt) THEN cnt ELSE n

\* topcount = p_size - p_writep; if (topcount > count) topcount = count;
WriteTop(wp, size, n) == IF SignedGtSize(size - wp, n) THEN n ELSE size - wp

\* the copy_from_user calls of a write of n bytes: <<offset, length>> each
WriteSegs(rp, wp, size, n) ==
    IF rp < wp
    THEN LET topcount == WriteTop(wp, size, n)
         IN  IF n - topcount # 0
             THEN << <<wp, topcount>>, <<0, n - topcount>> >>
             ELSE << <<wp, topcount>> >>
    ELSE << <<wp, n>> >>

\* p_writep after a write of n bytes
WriteNewPos(rp, wp, size, n) ==
    IF rp < wp
    THEN n - WriteTop(wp, size, n)
    ELSE wp + n

Zeros(n) == [i \in 1..n |-> 0]

\* p_rbuf after the copies segs[1..upto] and, when a further copy failed,
\* k bytes of it followed by the zeroes copy_from_user pads with
WriteData(buf, segs, data, upto, k) ==
    LET l1 == segs[1][2]
        b1 == IF upto >= 1 THEN BufWrite(buf, segs[1][1], SubSeq(data, 1, l1))
              ELSE BufWrite(buf, segs[1][1], SubSeq(data, 1, k) \o Zeros(l1 - k))
    IN  IF Len(segs) = 1 \/ upto = 0 THEN b1
        ELSE LET l2 == segs[2][2]
             IN  IF upto >= 2
                 THEN BufWrite(b1, segs[2][1], SubSeq(data, l1 + 1, l1 + l2))
                 ELSE BufWrite(b1, segs[2][1],
                               SubSeq(data, l1 + 1, l1 + k) \o Zeros(l2 - k))

WriteCall(s) ==
    /\ pc[s] = "idle"
    /\ FMODE_WRITE \in f_mode[s]
    /\ \E n \in Reqs : req' = [req EXCEPT ![s] = n]
    /\ pc' = [pc EXCEPT ![s] = "lock"]
    /\ call' = [call EXCEPT ![s] = "write"]
    /\ UNCHANGED <<chan, p_lock, f_mode, f_nonblock, ret, ubuf, waitq>>

WriteLock(s) ==
    /\ pc[s] \in {"lock", "relock"}
    /\ call[s] = "write"
    /\ Acquire(s)
    /\ pc' = [pc EXCEPT ![s] = "check"]
    /\ UNCHANGED <<chan, call, f_mode, f_nonblock, req, ret, ubuf, waitq>>

\* the loop test with the mutex held and, when it fails, the transfer
WriteCheck(s) ==
    /\ pc[s] = "check"
    /\ call[s] = "write"
    /\ p_lock = s
    /\ p_lock' = NoOwner
    /\ IF WriteMustWait(p_count, p_size)
       THEN /\ IF NonBlocking(s)
               THEN Returns(s, EAGAIN)
               ELSE /\ pc' = [pc EXCEPT ![s] = "wait"]
                    /\ UNCHANGED <<ret, req>>
            /\ UNCHANGED <<chan, ubuf>>
       ELSE LET n == WriteClamp(req[s], p_count)
                segs == WriteSegs(p_readp, p_writep, p_size, n)
                data == UserData(s, n)
            IN  \E f \in 0..Len(segs), k \in 0..MaxReq :
                 IF f = 0
                 THEN /\ k = 0
                      /\ p_rbuf' = WriteData(p_rbuf, segs, data, Len(segs), 0)
                      /\ p_writep' = WriteNewPos(p_readp, p_writep, p_size, n)
                      /\ p_count' = p_count + n
                      /\ pc' = [pc EXCEPT ![s] = "wake"]
                      /\ ret' = [ret EXCEPT ![s] = n]
                      /\ UNCHANGED req
                      /\ UNCHANGED <<p_readp, p_size, p_nr_readers, p_nr_writers>>
                 ELSE /\ CopyMayFail(segs[f][2])
                      /\ k < segs[f][2]
                      /\ p_rbuf' = WriteData(p_rbuf, segs, data, f - 1, k)
                      /\ Returns(s, EFAULT)
                      /\ UNCHANGED <<p_readp, p_writep, p_count, p_size,
                                     p_nr_readers, p_nr_writers>>
    /\ UNCHANGED <<call, f_mode, f_nonblock, ubuf, waitq>>

(* -------------------- sleeping and waking, both handlers ------------- *)

\* the condition and the queue of the wait_event_interruptible a session is in
WaitCond(s) ==
    IF call[s] = "read" THEN ReadWaitCond(p_count) ELSE WriteWaitCond(p_count, p_size)

WaitQ(s) == IF call[s] = "read" THEN ReadWaitQ ELSE WriteWaitQ

\* the queue a session wakes after its transfer
WakeQ(s) == IF call[s] = "read" THEN ReadWakeQ ELSE WriteWakeQ

\* wait_event_interruptible: the condition is evaluated without the mutex;
\* the session goes on when it holds and sleeps on the queue when not
WaitEvent(s) ==
    /\ pc[s] \in {"wait", "woken"}
    /\ IF WaitCond(s)
       THEN /\ pc' = [pc EXCEPT ![s] = "relock"]
            /\ UNCHANGED waitq
       ELSE /\ pc' = [pc EXCEPT ![s] = "sleep"]
            /\ waitq' = [waitq EXCEPT ![s] = WaitQ(s)]
    /\ UNCHANGED <<chan, p_lock, call, f_mode, f_nonblock, req, ret, ubuf>>

\* wake_up_interruptible after the unlock: every sleeper on the queue runs
\* again; then the handler returns the count it stored
WakeUp(s) ==
    /\ pc[s] = "wake"
    /\ pc' = [t \in Sessions |->
                IF t = s THEN "returned"
                ELSE IF waitq[t] = WakeQ(s) THEN "woken" ELSE pc[t]]
    /\ waitq' = [t \in Sessions |-> IF waitq[t] = WakeQ(s) THEN NoQueue ELSE waitq[t]]
    /\ req' = [req EXCEPT ![s] = 0]
    /\ UNCHANGED <<chan, p_lock, call, f_mode, f_nonblock, ret, ubuf>>

(* ----------------------------- pipe_release -------------------------- *)

ReleaseCall(s) ==
    /\ pc[s] = "idle"
    /\ pc' = [pc EXCEPT ![s] = "lock"]
    /\ call' = [call EXCEPT ![s] = "release"]
    /\ UNCHANGED <<chan, p_lock, f_mode, f_nonblock, req, ret, ubuf, waitq>>

ReleaseLock(s) ==
    /\ pc[s] = "lock"
    /\ call[s] = "release"
    /\ Acquire(s)
    /\ pc' = [pc EXCEPT ![s] = "drop"]
    /\ UNCHANGED <<chan, call, f_mode, f_nonblock, req, ret, ubuf, waitq>>

\* should the buffer be freed, given the counts after the decrements
\* mutant of LastClose: the writers are forgotten
LastCloseReaders(readers, writers) == readers = 0

LastClose(readers, writers) == readers + writers = 0

ReleaseDrop(s) ==
    /\ pc[s] = "drop"
    /\ p_lock = s
    /\ LET readers == IF FMODE_READ \in f_mode[s] THEN p_nr_readers - 1 ELSE p_nr_readers
           writers == IF FMODE_WRITE \in f_mode[s] THEN p_nr_writers - 1 ELSE p_nr_writers
       IN  /\ p_nr_readers' = readers
           /\ p_nr_writers' = writers
           /\ p_rbuf' = IF LastClose(readers, writers) THEN NULL ELSE p_rbuf
    /\ p_lock' = NoOwner
    /\ Returns(s, 0)
    /\ UNCHANGED <<p_readp, p_writep, p_count, p_size>>
    /\ UNCHANGED <<call, f_mode, f_nonblock, ubuf, waitq>>

(* --------------------- signals and the return to the caller ---------- *)

\* a signal reaches a session that sleeps in mutex_lock_interruptible (the
\* mutex is held by another) or in wait_event_interruptible
\* mutant of Interruptible: the sleep on the wait queue is wait_event, which
\* no signal ends
InterruptibleLockOnly(s) ==
    pc[s] \in {"lock", "relock"} /\ call[s] # "release" /\ p_lock # NoOwner

\* the places where a signal ends the call: mutex_lock_interruptible of
\* open, read and write while another holds the mutex (release takes it
\* with mutex_lock), and wait_event_interruptible
Interruptible(s) ==
    \/ pc[s] \in {"lock", "relock"} /\ call[s] # "release" /\ p_lock # NoOwner
    \/ pc[s] = "sleep"

Interrupt(s) ==
    /\ Interruptible(s)
    /\ Returns(s, ERESTARTSYS)
    /\ waitq' = [waitq EXCEPT ![s] = NoQueue]
    /\ UNCHANGED <<chan, p_lock, call, f_mode, f_nonblock, ubuf>>

\* the caller takes the result; the file is open after a successful open
\* and until release
Return(s) ==
    /\ pc[s] = "returned"
    /\ pc' = [pc EXCEPT ![s] =
                IF call[s] = "release" \/ (call[s] = "open" /\ ret[s] # 0)
                THEN "closed" ELSE "idle"]
    /\ IF call[s] = "release" \/ (call[s] = "open" /\ ret[s] # 0)
       THEN /\ f_mode' = [f_mode EXCEPT ![s] = {}]
            /\ f_nonblock' = [f_nonblock EXCEPT ![s] = FALSE]
       ELSE UNCHANGED <<f_mode, f_nonblock>>
    /\ call' = [call EXCEPT ![s] = "none"]
    /\ ret' = [ret EXCEPT ![s] = 0]
    /\ ubuf' = [ubuf EXCEPT ![s] = <<>>]
    /\ UNCHANGED <<chan, p_lock, req, waitq>>

Next ==
    \E s \in Sessions :
        \/ OpenCall(s)
        \/ OpenLock(s)
        \/ OpenAlloc(s)
        \/ OpenInit(s)
        \/ ReadCall(s)
        \/ ReadLock(s)
        \/ ReadCheck(s)
        \/ WriteCall(s)
        \/ WriteLock(s)
        \/ WriteCheck(s)
        \/ WaitEvent(s)
        \/ WakeUp(s)
        \/ ReleaseCall(s)
        \/ ReleaseLock(s)
        \/ ReleaseDrop(s)
        \/ Interrupt(s)
        \/ Return(s)

Spec == Init /\ [][Next]_vars

(* ------------------- the specification with fair scheduling ---------- *)

\* every step but a signal: the runs in which no call is interrupted
NextNoSignal ==
    \E s \in Sessions :
        \/ OpenCall(s)
        \/ OpenLock(s)
        \/ OpenAlloc(s)
        \/ OpenInit(s)
        \/ ReadCall(s)
        \/ ReadLock(s)
        \/ ReadCheck(s)
        \/ WriteCall(s)
        \/ WriteLock(s)
        \/ WriteCheck(s)
        \/ WaitEvent(s)
        \/ WakeUp(s)
        \/ ReleaseCall(s)
        \/ ReleaseLock(s)
        \/ ReleaseDrop(s)
        \/ Return(s)

\* the steps of a call that is under way, which the scheduler runs whenever
\* they can run; whether a caller makes another call is up to the caller
LockStep(s) == OpenLock(s) \/ ReadLock(s) \/ WriteLock(s) \/ ReleaseLock(s)

Progress(s) ==
    \/ OpenAlloc(s) \/ OpenInit(s) \/ ReadCheck(s) \/ WriteCheck(s)
    \/ WaitEvent(s) \/ WakeUp(s) \/ ReleaseDrop(s) \/ Return(s)

\* a runnable task runs, and the mutex is handed to each of its waiters
FairSpec ==
    /\ Init
    /\ [][NextNoSignal]_vars
    /\ \A s \in Sessions : WF_vars(Progress(s)) /\ SF_vars(LockStep(s))

(* ------------------------- vocabulary of the claims ------------------ *)

\* the valid bytes of the ring, oldest first
RingContent ==
    [i \in 1..p_count |->
        IF ((p_readp + i - 1) % p_size) \in DOMAIN p_rbuf
        THEN p_rbuf[(p_readp + i - 1) % p_size]
        ELSE -1]

\* the step in which session s, past the loop of pipe_write with the mutex
\* held, copies and updates the ring without a copy fault
WriteDone(s) == pc[s] = "check" /\ call[s] = "write" /\ pc'[s] = "wake"

\* the same for pipe_read
ReadDone(s) == pc[s] = "check" /\ call[s] = "read" /\ pc'[s] = "wake"

\* the loop test of the handler session s is in
MustWait(s) ==
    IF call[s] = "read" THEN ReadMustWait(p_count) ELSE WriteMustWait(p_count, p_size)

(* -------------------------------- C1 --------------------------------- *)

\* C1: round trip.  A write of S, 1 <= |S| <= size, into an empty buffer
\* accepts all |S| bytes and leaves exactly S in the ring, and a read of as
\* many bytes as the ring holds returns the ring's bytes in order.
C1_RoundTrip ==
    [][\A s \in Sessions :
        /\ (WriteDone(s) /\ p_count = 0 /\ req[s] >= 1 /\ req[s] <= p_size)
              => (ret'[s] = req[s] /\ RingContent' = UserData(s, req[s]))
        /\ (ReadDone(s) /\ req[s] = p_count)
              => ubuf'[s] = RingContent]_vars

(* -------------------------------- C2 --------------------------------- *)

\* C2: in every reachable state 0 <= count <= size.
C2_CountInRange == p_count >= 0 /\ p_count <= p_size

\* a write has gone through while another session sleeps in read
C2_Witness ==
    \E s, r \in Sessions :
        /\ pc[s] = "wake" /\ call[s] = "write" /\ req[s] = MaxReq
        /\ pc[r] = "sleep" /\ call[r] = "read"

(* -------------------------------- C3 --------------------------------- *)

\* C3: a write that proceeds with requestedCount r transfers exactly
\* min(r, size - count) bytes, returns that number and adds it to count.
C3_WriteFillsFreeSpace ==
    [][\A s \in Sessions :
        WriteDone(s) =>
            /\ ret'[s] = Min(req[s], p_size - p_count)
            /\ p_count' = p_count + ret'[s]]_vars

(* -------------------------------- C4 --------------------------------- *)

\* reader r sleeps in a read of at least one byte
BlockedReader(r) == pc[r] = "sleep" /\ call[r] = "read" /\ req[r] >= 1

\* writer w is past the loop test of a write of at least one byte into a
\* buffer that is not full, and nobody else is in a call
WriteProceeds(r, w) ==
    /\ pc[w] = "check" /\ call[w] = "write" /\ req[w] >= 1
    /\ ~WriteMustWait(p_count, p_size)
    /\ \A o \in Sessions \ {r, w} : pc[o] \in {"closed", "idle"}

\* r has read between one byte and what it asked for
ReaderServed(r) ==
    pc[r] = "wake" /\ call[r] = "read" /\ ret[r] >= 1 /\ ret[r] <= req[r]

\* the data was not there for r to take: the copy of w faulted, or a
\* session other than r began another call
Disturbed(r, w) ==
    \/ pc[w] = "returned" /\ ret[w] = EFAULT
    \/ pc[w] \notin {"check", "wake", "returned", "idle"}
    \/ \E o \in Sessions \ {r, w} : pc[o] \notin {"closed", "idle"}

\* C4: a blocking read that found the buffer empty and sleeps is, once a
\* concurrent write of at least one byte proceeds, eventually served (when
\* no signal arrives and nobody else takes the data).
C4_BlockedReadServed ==
    \A r, w \in Sessions :
        (r # w /\ BlockedReader(r) /\ WriteProceeds(r, w))
            ~> (ReaderServed(r) \/ Disturbed(r, w))

(* -------------------------------- C5 --------------------------------- *)

\* C5: the wait set a write suspends on is the wait set a completed read
\* signals.
C5_WriterOnReadWakeQueue ==
    \A s \in Sessions : call[s] = "write" => WaitQ(s) = ReadWakeQ

(* -------------------------------- C6 --------------------------------- *)

\* C6: a non-blocking session never suspends; when its read finds the
\* buffer empty or its write finds it full the call returns EAGAIN in that
\* step, with count, readPos, writePos and the buffer unchanged and the
\* mutex released.
C6_NonBlocking ==
    /\ [](\A s \in Sessions :
            f_nonblock[s] =>
                /\ pc[s] \notin {"wait", "sleep", "woken", "relock"}
                /\ waitq[s] = NoQueue)
    /\ [][\A s \in Sessions :
            (pc[s] = "check" /\ pc'[s] # "check" /\ f_nonblock[s] /\ MustWait(s))
                => /\ pc'[s] = "returned"
                   /\ ret'[s] = EAGAIN
                   /\ UNCHANGED <<p_count, p_readp, p_writep, p_rbuf>>
                   /\ p_lock' = NoOwner]_vars

\* a non-blocking read of an empty buffer has returned EAGAIN
C6_Witness ==
    \E s \in Sessions :
        /\ pc[s] = "returned" /\ call[s] = "read" /\ ret[s] = EAGAIN
        /\ f_nonblock[s] /\ p_count = 0 /\ p_lock = NoOwner

(* -------------------------------- C7 --------------------------------- *)

\* session s is between the allocation and the counting of pipe_open
MidOpen(s) == pc[s] = "init"

\* C7: when no session is in the middle of open, the buffer is allocated
\* exactly when readerCount + writerCount > 0; release frees it exactly
\* when the counts after its decrements add up to 0 and otherwise leaves
\* it alone; an open that finds no buffer allocates one, and every open
\* that succeeds leaves a buffer with count = readPos = writePos = 0.
C7_BufferLifecycle ==
    /\ []((\A s \in Sessions : ~MidOpen(s))
            => ((p_rbuf # NULL) <=> (p_nr_readers + p_nr_writers > 0)))
    /\ [][\A s \in Sessions :
            /\ (pc[s] = "drop" /\ pc'[s] # "drop")
                  => /\ (p_rbuf' = NULL) <=> (p_nr_readers' + p_nr_writers' = 0)
                     /\ p_rbuf' # NULL => p_rbuf' = p_rbuf
            /\ (pc[s] = "alloc" /\ pc'[s] = "init" /\ p_rbuf = NULL)
                  => p_rbuf' = [i \in 0..(PipeSize - 1) |-> 0]
            /\ (pc[s] = "init" /\ pc'[s] # "init")
                  => /\ p_rbuf' # NULL
                     /\ p_count' = 0 /\ p_readp' = 0 /\ p_writep' = 0]_vars

\* the last close has freed the buffer and the next open is about to
\* allocate it again
C7_Witness ==
    \E s, t \in Sessions :
        /\ pc[s] = "returned" /\ call[s] = "release"
        /\ p_rbuf = NULL /\ p_nr_readers + p_nr_writers = 0
        /\ pc[t] = "alloc"

(* -------------------------------- C9 --------------------------------- *)

Blocked(s) ==
    \/ pc[s] = "sleep"
    \/ /\ pc[s] \in {"lock", "relock"}
       /\ call[s] \in {"open", "read", "write"}
       /\ p_lock # NoOwner

\* C11: a signal can end every call that sleeps on a wait queue or waits
\* for the mutex in open, read or write; the call then returns
\* -ERESTARTSYS having transferred nothing, with count, readPos, writePos,
\* readerCount, writerCount, size and the buffer as they were, the mutex
\* not held by the caller and the caller on no wait queue; and no call
\* returns -ERESTARTSYS from anywhere else.
C11_Interrupted ==
    /\ [](\A s \in Sessions : Blocked(s) => ENABLED Interrupt(s))
    /\ [][\A s \in Sessions :
            (pc[s] # "returned" /\ pc'[s] = "returned" /\ ret'[s] = ERESTARTSYS)
               => /\ Blocked(s)
                  /\ chan' = chan
                  /\ ubuf'[s] = ubuf[s]
                  /\ p_lock' # s
                  /\ p_lock' = p_lock
                  /\ waitq'[s] = NoQueue]_vars

\* a read that slept on the empty buffer has returned -ERESTARTSYS while
\* another session is inside pipe_write with the mutex
C11_Witness ==
    \E r, w \in Sessions :
        /\ pc[r] = "returned" /\ call[r] = "read" /\ ret[r] = ERESTARTSYS
        /\ pc[w] = "check" /\ call[w] = "write" /\ p_lock = w

(* -------------------------------- C12 -------------------------------- *)

\* C12: an open that leaves the allocation step by returning has found no
\* buffer and returns -ENOMEM, with the mutex released and the pipe as it
\* was: the buffer still NULL and size, readPos, writePos, count,
\* readerCount and writerCount unchanged; and -ENOMEM is returned from
\* nowhere else.
C12_OutOfMemory ==
    [][\A s \in Sessions :
          /\ (pc[s] = "alloc" /\ pc'[s] = "returned")
                => /\ p_rbuf = NULL
                   /\ ret'[s] = ENOMEM
                   /\ p_lock' = NoOwner
                   /\ p_rbuf' = NULL
                   /\ chan' = chan
          /\ (pc[s] # "returned" /\ pc'[s] = "returned" /\ ret'[s] = ENOMEM)
                => (pc[s] = "alloc" /\ call[s] = "open")]_vars

\* an open has returned -ENOMEM and the next open is already inside the
\* allocation step with the mutex
C12_Witness ==
    \E s, t \in Sessions :
        /\ pc[s] = "returned" /\ call[s] = "open" /\ ret[s] = ENOMEM
        /\ pc[t] = "alloc" /\ p_lock = t /\ p_rbuf = NULL

(* -------------------------------- C13 -------------------------------- *)

\* C13: once an open has set size, readPos and writePos lie in [0, size)
\* and (writePos - readPos) mod size = count mod size, in every reachable
\* state.
C13_RingConsistent ==
    p_size > 0 =>
        /\ p_readp >= 0 /\ p_readp < p_size
        /\ p_writep >= 0 /\ p_writep < p_size
        /\ (p_writep - p_readp) % p_size = p_count % p_size

\* a write that asked for bytes has updated the ring and a read is past
\* its lock on the same ring
C13_Witness ==
    \E w, r \in Sessions :
        /\ pc[w] = "wake" /\ call[w] = "write" /\ req[w] >= 1
        /\ pc[r] = "check" /\ call[r] = "read" /\ req[r] >= 1
        /\ p_size > 0

(* -------------------------------- C14 -------------------------------- *)

\* session s is at a step that reads or writes a field of the pipe: the
\* allocation test, the initialisation and the counting of open, the loop
\* test and the transfer of read and write, the decrements of release, and
\* the condition that wait_event_interruptible evaluates on count
AccessesPipe(s) == pc[s] \in {"alloc", "init", "check", "drop", "wait", "woken"}

\* C14: every step of a session that reads or writes a field of the pipe
\* is taken with the mutex held by that session, the evaluation of the
\* wake-up condition on count included, and no field changes while the
\* mutex is free.
C14_FieldsUnderLock ==
    [][/\ \A s \in Sessions :
            (AccessesPipe(s) /\ pc'[s] # pc[s]) => p_lock = s
       /\ chan' # chan => p_lock # NoOwner]_vars

(* -------------------------------- C15 -------------------------------- *)

\* C15: every open that succeeds, the first as well as one that finds the
\* buffer allocated, leaves readPos = writePos = count = 0 and no unread
\* byte, adds one to readerCount exactly when its mode has read and one to
\* writerCount exactly when its mode has write; and no open succeeds
\* without this step.
C15_OpenResets ==
    [][\A s \in Sessions :
          /\ (pc[s] = "init" /\ pc'[s] # "init")
                => /\ pc'[s] = "returned" /\ ret'[s] = 0
                   /\ p_readp' = 0 /\ p_writep' = 0 /\ p_count' = 0
                   /\ RingContent' = << >>
                   /\ p_nr_readers' - p_nr_readers
                         = (IF FMODE_READ \in f_mode'[s] THEN 1 ELSE 0)
                   /\ p_nr_writers' - p_nr_writers
                         = (IF FMODE_WRITE \in f_mode'[s] THEN 1 ELSE 0)
          /\ (pc[s] # "returned" /\ pc'[s] = "returned"
                /\ call[s] = "open" /\ ret'[s] = 0)
                => pc[s] = "init"]_vars

\* an open for writing only has succeeded on a buffer that an earlier
\* open allocated, while the reader of that earlier open is asleep
C15_Witness ==
    \E s, t \in Sessions :
        /\ pc[s] = "returned" /\ call[s] = "open" /\ ret[s] = 0
        /\ f_mode[s] = {FMODE_WRITE}
        /\ pc[t] = "sleep" /\ call[t] = "read"
        /\ p_nr_readers = 1 /\ p_nr_writers = 1

(* -------------------------------- C17 -------------------------------- *)

\* C17: a write that gets past its loop test and copies without a fault
\* returns min(requestedCount, count), the fill level and not the free
\* space, and adds that to count; on an empty buffer it returns 0 and
\* leaves count, writePos and the buffer as they were, however much free
\* space there is.
C17_WriteClampsToFill ==
    [][\A s \in Sessions :
          WriteDone(s)
             => /\ ret'[s] = Min(req[s], p_count)
                /\ p_count' = p_count + ret'[s]
                /\ p_count = 0
                     => /\ ret'[s] = 0
                        /\ p_count' = p_count
                        /\ p_writep' = p_writep
                        /\ p_rbuf' = p_rbuf
                        /\ p_size - p_count > 0]_vars

\* a write that asked for MaxReq bytes of an empty buffer has returned 0
\* and left the buffer empty
C17_Witness ==
    \E w \in Sessions :
        /\ pc[w] = "wake" /\ call[w] = "write"
        /\ req[w] = MaxReq /\ ret[w] = 0
        /\ p_count = 0 /\ p_writep = 0 /\ p_size = PipeSize

(* -------------------------------- C18 -------------------------------- *)

\* session s is suspended on a wait queue: between the unlock of the loop
\* and the attempt to take the mutex again
Suspended(s) == pc[s] \in {"wait", "sleep", "woken"}

\* the call of session s has returned, or s is in no call
OutOfCall(s) == pc[s] \in {"returned", "idle", "closed"}

\* C18: no session holds the mutex while it is suspended on a wait queue,
\* nor once its open, read, write or release has returned, whatever the
\* result.
C18_NoLockAsleepOrReturned ==
    \A s \in Sessions : (Suspended(s) \/ OutOfCall(s)) => p_lock # s

\* a reader sleeps on the empty buffer, the write of another session has
\* returned, and the mutex is free
C18_Witness ==
    \E r, w \in Sessions :
        /\ pc[r] = "sleep" /\ call[r] = "read"
        /\ pc[w] = "returned" /\ call[w] = "write"
        /\ p_lock = NoOwner

(* -------------------------------- C19 -------------------------------- *)

\* session s holds the mutex past the loop test of read or write: its next
\* step is the copy
AboutToCopy(s) ==
    pc[s] = "check" /\ call[s] \in {"read", "write"} /\ ~MustWait(s)

\* the segments <<offset, length>> of the buffer that the copy of session
\* s names
CopySegs(s) ==
    IF call[s] = "read"
    THEN ReadSegs(p_readp, p_writep, p_size, ReadClamp(req[s], p_count))
    ELSE WriteSegs(p_readp, p_writep, p_size, WriteClamp(req[s], p_count))

\* C19: in every reachable state, every segment that a read or a write is
\* about to copy lies inside the allocated buffer: offset >= 0 and
\* offset + length <= size, whatever count was asked for.
C19_CopiesInBuffer ==
    \A s \in Sessions :
        AboutToCopy(s) =>
            \A i \in 1..Len(CopySegs(s)) :
                /\ InBuffer(p_rbuf, CopySegs(s)[i])
                /\ CopySegs(s)[i][1] + CopySegs(s)[i][2] <= p_size

\* a write that asked for more bytes than the buffer has is about to copy
C19_Witness ==
    \E w \in Sessions :
        /\ AboutToCopy(w) /\ call[w] = "write"
        /\ req[w] = MaxReq /\ MaxReq > p_size
        /\ Len(CopySegs(w)) >= 1

(* -------------------------------- C20 -------------------------------- *)

\* the open of session s has counted it and no release has yet taken it
\* out of the counts
IsOpen(s) == f_mode[s] # {} /\ ~(call[s] = "release" /\ pc[s] = "returned")

\* C20: as long as a session is open for reading or writing the buffer is
\* allocated, in particular at each of its copy steps and after it slept
\* while other sessions opened and closed; and a release that leaves
\* another session open neither frees nor replaces the buffer.
C20_BufferWhileOpen ==
    /\ [](\A s \in Sessions : (IsOpen(s) \/ AboutToCopy(s)) => p_rbuf # NULL)
    /\ [][\A s, t \in Sessions :
            (pc[s] = "drop" /\ pc'[s] # "drop" /\ t # s /\ IsOpen(t))
               => (p_rbuf' # NULL /\ p_rbuf' = p_rbuf)]_vars

\* a write is about to copy although the release of another session has
\* just returned
C20_Witness ==
    \E w, t \in Sessions :
        /\ AboutToCopy(w) /\ call[w] = "write" /\ IsOpen(w)
        /\ pc[t] = "returned" /\ call[t] = "release" /\ ret[t] = 0
        /\ p_rbuf # NULL

====
